---- MODULE Spec2Model ----
(***************************************************************************)
(* A model of the terrain renderer's numeric core: the fractal noise       *)
(* accumulators (the three generations of terrain.ts) and the fixed-budget *)
(* shadow ray march of game.ts.                                            *)
(*                                                                         *)
(* Numbers.  The shader computes in f32.  The model computes in fixed      *)
(* point: a number x is the integer x * One, and a product or quotient is  *)
(* rounded to the grid once per operation, towards zero: like f32's, the   *)
(* rounding is the same for x and -x.                                      *)
(* Vectors are tuples; a mat2x2f is the pair of its columns, as in WGSL.   *)
(***************************************************************************)
EXTENDS Integers, Sequences, FiniteSets, TLC

VARIABLES settings, randf, calls, march, frags, cam, gpu, loop

\* the shader side: the accumulators, the shadow march, the material blend
shaderVars == <<settings, randf, calls, march, frags>>

\* the host side, game(): the camera and its input handlers, the uniform and
\* the textures, the animation loop and its teardown
hostVars == <<cam, gpu, loop>>

vars == <<settings, randf, calls, march, frags, cam, gpu, loop>>

(***************************************************************************)
(* f32 arithmetic and the typegpu/std operations the code uses.            *)
(***************************************************************************)
One == 100

FMul(a, b) ==
  LET p == a * b IN IF p < 0 THEN -((-p) \div One) ELSE p \div One

\* add(v, w) on vec2f
VAdd(v, w) == <<v[1] + w[1], v[2] + w[2]>>

\* mul(s, v) on vec2f
SMulV(s, v) == <<FMul(s, v[1]), FMul(s, v[2])>>

\* mul(s, v) on vec3f
SMulV3(s, v) == <<FMul(s, v[1]), FMul(s, v[2]), FMul(s, v[3])>>

\* mul(M, v): M is <<column 1, column 2>>
MMulV(M, v) ==
  <<FMul(M[1][1], v[1]) + FMul(M[2][1], v[2]),
    FMul(M[1][2], v[1]) + FMul(M[2][2], v[2])>>

\* mul(A, B): the columns of the product are A times the columns of B
MMulM(A, B) == <<MMulV(A, B[1]), MMulV(A, B[2])>>

\* mul(s, M)
SMulM(s, M) == <<SMulV(s, M[1]), SMulV(s, M[2])>>

\* cos and sin of the angles (in degrees) the settings are drawn from
cos(theta) == CASE theta = 0 -> 100 [] theta = 30 -> 87 [] theta = 90 -> 0

sin(theta) == CASE theta = 0 -> 0 [] theta = 30 -> 50 [] theta = 90 -> 100

\* mat2x2f(vec2f(cos, -sin), vec2f(sin, cos))
RotationMatrix(theta) == <<<<cos(theta), -sin(theta)>>, <<sin(theta), cos(theta)>>>>

\* mutant: the inverse rotation is the rotation itself
InverseRotationMatrixForward(theta) == RotationMatrix(theta)

\* mat2x2f(vec2f(cos, sin), vec2f(-sin, cos))
InverseRotationMatrix(theta) == <<<<cos(theta), sin(theta)>>, <<-sin(theta), cos(theta)>>>>

\* mat2x2f(1, 0, 0, 1)
Identity == <<<<One, 0>>, <<0, One>>>>

(***************************************************************************)
(* The noise source, an external primitive: a fixed continuous function of *)
(* the sample position with its exact gradient, returned as                *)
(* <<value, d/dx, d/dy>>.  The model's noise is the mean of two triangle   *)
(* waves of period 4, one along each axis: piecewise linear, so that its   *)
(* gradient is exact in fixed point.                                       *)
(***************************************************************************)
\* a triangle wave through [-1, 1] and its slope
Tri(x) == LET w == x % (4 * One) IN IF w < 2 * One THEN w - One ELSE 3 * One - w

TriSlope(x) == IF x % (4 * One) < 2 * One THEN One ELSE -One

NoisePhase == <<0, 130>>

sampleWithGradient(p) ==
  LET q == VAdd(p, NoisePhase)
  IN <<(Tri(q[1]) + Tri(q[2])) \div 2, TriSlope(q[1]) \div 2, TriSlope(q[2]) \div 2>>

(***************************************************************************)
(* settingsSlot.  The slot "can be swapped with a different value at       *)
(* compile time": the settings are fixed in the initial state and never    *)
(* written.  octaves and smoothOctaves are read by the slot-driven         *)
(* generations of fbm only.                                                *)
(***************************************************************************)
MaxOctaves == 3

\* the values terrain.ts sets, and a second set within the documented ranges
Profiles ==
  { [lacunarity |-> 200, baseAmplitude |-> 40, noiseRotation |-> 30,
     amplitudeDecay |-> 45, offset |-> <<1221, 920>>],
    [lacunarity |-> 300, baseAmplitude |-> 100, noiseRotation |-> 90,
     amplitudeDecay |-> 50, offset |-> <<0, 0>>] }

SettingsChoices ==
  { [lacunarity |-> p.lacunarity, baseAmplitude |-> p.baseAmplitude,
     noiseRotation |-> p.noiseRotation, octaves |-> o, smoothOctaves |-> s,
     amplitudeDecay |-> p.amplitudeDecay, offset |-> p.offset] :
       p \in Profiles, o \in 0..MaxOctaves, s \in 0..MaxOctaves }

\* sample positions handed to the accumulators
Positions == {<<0, 0>>, <<150, -75>>}

\* the five accumulators: part_000 (fbmLegacy), src/lib/terrain.ts (fbmSlot),
\* and the three of the latest terrain.ts
Fns == {"fbmLegacy", "fbmSlot", "fbm", "fbmWithGradient", "fbmWithDoubleGradient"}

SlotDriven(fn) == fn \in {"fbmLegacy", "fbmSlot"}

HasGradient(fn) == fn # "fbm"

HasSmoothGradient(fn) == fn \in {"fbmSlot", "fbmWithDoubleGradient"}

(***************************************************************************)
(* One call of an accumulator: its locals l, from the declarations before  *)
(* the loop to the return.                                                 *)
(***************************************************************************)
\* the locals as declared before the loop
Entry(fn, pos, octaves, threshold) ==
  [fn |-> fn,
   tPos |-> IF fn = "fbmLegacy" THEN pos ELSE VAdd(pos, settings.offset),
   amplitude |-> settings.baseAmplitude,
   height |-> 0,
   grad |-> <<0, 0>>,
   smoothGrad |-> <<0, 0>>,
   m |-> Identity,
   i |-> 0,
   octaves |-> IF SlotDriven(fn) THEN settings.octaves ELSE octaves,
   threshold |-> IF fn = "fbmSlot" THEN settings.smoothOctaves ELSE threshold,
   samples |-> 0]

\* mutant: one iteration too many
LoopCondInclusive(l) == l.i <= l.octaves

\* for (let i = u32(0); i < octaves; i++)
LoopCond(l) == l.i < l.octaves

\* mutant: every accumulator multiplies the gradient by amplitude again
GradStepTwice(fn, grad, m, amplitude, n) ==
  IF fn = "fbm"
    THEN grad
    ELSE VAdd(grad, SMulV(amplitude, MMulV(m, <<n[2], n[3]>>)))

\* grad = add(grad, mul(m, n.yz)); the legacy body multiplies by amplitude again
GradStep(fn, grad, m, amplitude, n) ==
  CASE fn = "fbm" -> grad
    [] fn = "fbmLegacy" -> VAdd(grad, SMulV(amplitude, MMulV(m, <<n[2], n[3]>>)))
    [] OTHER -> VAdd(grad, MMulV(m, <<n[2], n[3]>>))

\* mutants of the snapshot: taken one octave early, and taken at every octave
\* up to the threshold
SmoothSnapshotEarly(fn, i, threshold, grad, smoothGrad) ==
  IF HasSmoothGradient(fn) /\ i + 1 = threshold THEN grad ELSE smoothGrad

SmoothSnapshotUpTo(fn, i, threshold, grad, smoothGrad) ==
  IF HasSmoothGradient(fn) /\ i <= threshold THEN grad ELSE smoothGrad

\* if (i === threshold) { smoothGrad = grad; }
SmoothSnapshot(fn, i, threshold, grad, smoothGrad) ==
  IF HasSmoothGradient(fn) /\ i = threshold THEN grad ELSE smoothGrad

\* mutant: the sample position is jittered by the random generator's state
OctaveBodySeeded(l) ==
  LET lacunarity == settings.lacunarity
      theta == settings.noiseRotation
      n == SMulV3(l.amplitude, sampleWithGradient(VAdd(l.tPos, <<randf, 0>>)))
      grad == GradStep(l.fn, l.grad, l.m, l.amplitude, n)
      m2 == RotationMatrix(theta)
      m2i == InverseRotationMatrix(theta)
  IN [l EXCEPT
        !.height = l.height + n[1],
        !.grad = grad,
        !.smoothGrad = SmoothSnapshot(l.fn, l.i, l.threshold, grad, l.smoothGrad),
        !.amplitude = FMul(l.amplitude, settings.amplitudeDecay),
        !.tPos = SMulV(lacunarity, MMulV(m2, l.tPos)),
        !.m = IF l.fn = "fbm" THEN l.m ELSE SMulM(lacunarity, MMulM(m2i, l.m)),
        !.i = l.i + 1,
        !.samples = l.samples + 1]

\* one iteration of the loop
OctaveBody(l) ==
  LET lacunarity == settings.lacunarity
      theta == settings.noiseRotation
      n == SMulV3(l.amplitude, sampleWithGradient(l.tPos))
      grad == GradStep(l.fn, l.grad, l.m, l.amplitude, n)
      m2 == RotationMatrix(theta)
      m2i == InverseRotationMatrix(theta)
  IN [l EXCEPT
        !.height = l.height + n[1],
        !.grad = grad,
        !.smoothGrad = SmoothSnapshot(l.fn, l.i, l.threshold, grad, l.smoothGrad),
        !.amplitude = FMul(l.amplitude, settings.amplitudeDecay),
        !.tPos = SMulV(lacunarity, MMulV(m2, l.tPos)),
        !.m = IF l.fn = "fbm" THEN l.m ELSE SMulM(lacunarity, MMulM(m2i, l.m)),
        !.i = l.i + 1,
        !.samples = l.samples + 1]

\* the value returned: f32, vec3f(height, grad) or the result struct
ReturnValue(l) ==
  CASE l.fn = "fbm" -> l.height
    [] l.fn \in {"fbmLegacy", "fbmWithGradient"} -> <<l.height, l.grad[1], l.grad[2]>>
    [] OTHER -> [grad |-> l.grad, smoothGrad |-> l.smoothGrad, height |-> l.height]

\* the loop run to its end (each iteration's locals are evaluated once, as a
\* value, before the next iteration reads them)
RECURSIVE RunLoop(_)
RunLoop(l) ==
  IF LoopCond(l)
    THEN CHOOSE r \in {RunLoop(next) : next \in {OctaveBody(l)}} : TRUE
    ELSE l

\* fbm(pos, octaves) of the latest terrain.ts, as the ray march calls it
fbm(pos, octaves) == ReturnValue(RunLoop(Entry("fbm", pos, octaves, 0)))

\* fbmWithGradient(pos, octaves)
fbmWithGradient(pos, octaves) ==
  ReturnValue(RunLoop(Entry("fbmWithGradient", pos, octaves, 0)))

\* fbmWithDoubleGradient(pos, firstOctaveThreshold, secondOctaveThreshold)
fbmWithDoubleGradient(pos, firstOctaveThreshold, secondOctaveThreshold) ==
  ReturnValue(RunLoop(Entry("fbmWithDoubleGradient", pos, secondOctaveThreshold,
                            firstOctaveThreshold)))

(***************************************************************************)
(* Shader invocations evaluating the accumulators, interleaved octave by   *)
(* octave.  Locals are private to an invocation; the settings and the      *)
(* random generator's seed are what invocations have in common.            *)
(***************************************************************************)
Invocations == {1, 2}

Idle == [pc |-> "idle"]

\* randf.seed(123), the first statement of the legacy fbm after its locals
Seed(fn, state) == IF fn = "fbmLegacy" THEN 123 ELSE state

Call(t) ==
  /\ calls[t].pc \in {"idle", "done"}
  /\ \E fn \in Fns, pos \in Positions, octaves \in 0..MaxOctaves,
        threshold \in 0..MaxOctaves :
       /\ SlotDriven(fn) => octaves = settings.octaves
       /\ fn # "fbmWithDoubleGradient" =>
            threshold = IF fn = "fbmSlot" THEN settings.smoothOctaves ELSE 0
       /\ calls' = [calls EXCEPT ![t] =
             [pc |-> "loop", fn |-> fn, pos |-> pos, octaves |-> octaves,
              threshold |-> threshold,
              l |-> Entry(fn, pos, octaves, threshold)]]
       /\ randf' = Seed(fn, randf)
  /\ UNCHANGED <<settings, march, frags, hostVars>>

Octave(t) ==
  /\ calls[t].pc = "loop"
  /\ LoopCond(calls[t].l)
  /\ calls' = [calls EXCEPT ![t].l = OctaveBody(calls[t].l)]
  /\ UNCHANGED <<settings, randf, march, frags, hostVars>>

Return(t) ==
  /\ calls[t].pc = "loop"
  /\ ~LoopCond(calls[t].l)
  /\ calls' = [calls EXCEPT ![t] =
        [calls[t] EXCEPT !.pc = "done"] @@ [ret |-> ReturnValue(calls[t].l)]]
  /\ UNCHANGED <<settings, randf, march, frags, hostVars>>

(***************************************************************************)
(* rayMarchShadow and the shadow test of mainFragment: one fragment        *)
(* marching from its world position towards the light.  queries is the     *)
(* list of height-field queries the call has made, oldest first.           *)
(***************************************************************************)
Scale == 30000

maxIterations == 20

threshold == 50

step == 1000

ShadowOctaves == 6

\* std.normalize(d.vec3f(1, 0.5, -0.5))
lightDir == <<82, 41, -41>>

\* a / b for b > 0
FDiv(a, b) == IF a < 0 THEN -(((-a) * One) \div b) ELSE (a * One) \div b

V3Add(v, w) == <<v[1] + w[1], v[2] + w[2], v[3] + w[3]>>

\* the ray parameters and origins the march is called with; the fragment
\* shader's own call is rayMarchShadow(worldPos, 1, 50)
Starts == {0, 100, 6000}

Ends == {500, 5000, 25000}

Origins ==
  {<<30000, y, -7500>> : y \in {0, 2955, 2960, 4000}} \cup {<<0, -1000, 0>>}

MarchIdle ==
  [pc |-> "idle", origin |-> <<0, 0, 0>>, start |-> 0, end |-> 0, t |-> 0,
   i |-> 0, height |-> 0, pos |-> <<0, 0, 0>>, queries |-> <<>>, ret |-> 0,
   light |-> One]

\* pos = origin + lightDir * t
MarchPos(origin, t) == V3Add(origin, SMulV3(t, lightDir))

\* height = fbm(pos.xz / _Scale, 6) * _Scale
MarchHeight(pos) ==
  FMul(fbm(<<FDiv(pos[1], Scale), FDiv(pos[3], Scale)>>, ShadowOctaves), Scale)

\* mutants of the loop condition: t <= end, and no iteration budget
MarchCondInclusive(mr) == mr.i < maxIterations /\ mr.t <= mr.end

MarchCondNoBudget(mr) == mr.t < mr.end

\* while (i < maxIterations && t < end)
MarchCond(mr) == mr.i < maxIterations /\ mr.t < mr.end

\* if (pos.y + threshold < height) break
Under(pos, height) == pos[2] + threshold < height

\* mutant: the sentinel is end, not end + 1
MarchResultEnd(mr) ==
  IF mr.t < mr.end /\ mr.pos[2] + threshold > mr.height
    THEN mr.end
    ELSE mr.t

\* if (t < end && pos.y + threshold > height) return end + 1; return t
MarchResult(mr) ==
  IF mr.t < mr.end /\ mr.pos[2] + threshold > mr.height
    THEN mr.end + One
    ELSE mr.t

MarchCall ==
  /\ march.pc \in {"idle", "done"}
  /\ \E origin \in Origins, start \in Starts, end \in Ends :
       march' = [MarchIdle EXCEPT !.pc = "loop", !.origin = origin,
                                  !.start = start, !.end = end, !.t = start]
  /\ UNCHANGED <<settings, randf, calls, frags, hostVars>>

\* mutant: the break comes after the step
MarchIterateLateBreak ==
  /\ march.pc = "loop"
  /\ MarchCond(march)
  /\ LET pos == MarchPos(march.origin, march.t)
         height == MarchHeight(pos)
         q == Append(march.queries, [t |-> march.t, pos |-> pos, height |-> height])
     IN march' = [march EXCEPT !.pos = pos, !.height = height, !.queries = q,
                               !.t = march.t + step, !.i = march.i + 1,
                               !.pc = IF Under(pos, height) THEN "exit" ELSE "loop"]
  /\ UNCHANGED <<settings, randf, calls, frags, hostVars>>

MarchIterate ==
  /\ march.pc = "loop"
  /\ MarchCond(march)
  /\ LET pos == MarchPos(march.origin, march.t)
         height == MarchHeight(pos)
         q == Append(march.queries, [t |-> march.t, pos |-> pos, height |-> height])
     IN march' =
          IF Under(pos, height)
            THEN [march EXCEPT !.pos = pos, !.height = height, !.queries = q,
                               !.pc = "exit"]
            ELSE [march EXCEPT !.pos = pos, !.height = height, !.queries = q,
                               !.t = march.t + step, !.i = march.i + 1]
  /\ UNCHANGED <<settings, randf, calls, frags, hostVars>>

MarchLoopExit ==
  /\ march.pc = "loop"
  /\ ~MarchCond(march)
  /\ march' = [march EXCEPT !.pc = "exit"]
  /\ UNCHANGED <<settings, randf, calls, frags, hostVars>>

MarchReturn ==
  /\ march.pc = "exit"
  /\ march' = [march EXCEPT !.pc = "returned", !.ret = MarchResult(march)]
  /\ UNCHANGED <<settings, randf, calls, frags, hostVars>>

\* if (shadowDist < maxShadowDist) { light *= 0.2; }, with light = att = 1
ShadowLight(shadowDist, maxShadowDist) ==
  IF shadowDist < maxShadowDist THEN FMul(One, 20) ELSE One

FragmentShadow ==
  /\ march.pc = "returned"
  /\ march' = [march EXCEPT !.pc = "done",
                             !.light = ShadowLight(march.ret, march.end)]
  /\ UNCHANGED <<settings, randf, calls, frags, hostVars>>

(***************************************************************************)
(* The material blend of mainFragment: the slope normal from the smooth    *)
(* gradient, the blend factor, the albedo.  Fragments are shaded           *)
(* independently; each takes the smoothGrad its accumulator call returned. *)
(***************************************************************************)
slopeDamping == 4

\* d.vec2f(0.6, 0.9)
slopeRange == <<60, 90>>

\* d.vec3f(0.3, 0.5, 0.3)
lowSlopeColor == <<30, 50, 30>>

\* d.vec3f(0.3, 0.28, 0.22)
highSlopeColor == <<30, 28, 22>>

Abs(x) == IF x < 0 THEN -x ELSE x

\* sqrt, rounded down to the grid; n is the sum of the squares of three grid
\* numbers and bound the sum of their magnitudes, so bound / 2 < sqrt(n) <= bound
Sqrt(n, bound) ==
  CHOOSE r \in (bound \div 2)..bound : r * r <= n /\ (r + 1) * (r + 1) > n

\* std.normalize on vec3f
normalize(v) ==
  LET len == Sqrt(v[1] * v[1] + v[2] * v[2] + v[3] * v[3],
                  Abs(v[1]) + Abs(v[2]) + Abs(v[3]))
  IN <<FDiv(v[1], len), FDiv(v[2], len), FDiv(v[3], len)>>

clamp(x, low, high) == IF x < low THEN low ELSE IF x > high THEN high ELSE x

\* mutant: the Hermite polynomial of the unclamped ratio
smoothstepUnclamped(a, b, x) ==
  LET t == FDiv(x - a, b - a)
  IN FMul(FMul(t, t), 3 * One - 2 * t)

\* the WGSL builtin the wrapper returns: t = clamp((x - a) / (b - a), 0, 1),
\* t * t * (3 - 2 * t)
smoothstep(a, b, x) ==
  LET t == clamp(FDiv(x - a, b - a), 0, One)
  IN FMul(FMul(t, t), 3 * One - 2 * t)

\* std.mix on vec3f with a scalar factor: e1 * (1 - e3) + e2 * e3
mix(e1, e2, e3) ==
  [c \in 1..3 |-> FMul(e1[c], One - e3) + FMul(e2[c], e3)]

\* normalize(mul(vec3f(-smoothGrad.x, 1, -smoothGrad.y), vec3f(damping, 1, damping)))
SlopeNormal(smoothGrad) ==
  normalize(<<FMul(-smoothGrad[1], slopeDamping * One), FMul(One, One),
              FMul(-smoothGrad[2], slopeDamping * One)>>)

\* smoothstep(slopeRange.x, slopeRange.y, 1 - slopeNormal.y)
BlendFactor(slopeNormal) ==
  smoothstep(slopeRange[1], slopeRange[2], One - slopeNormal[2])

\* the smooth gradients the fragments are shaded with: from flat ground to
\* slopes beyond the upper end of the range
GradStride == 25

MaxGrad == 300

SmoothGrads ==
  {<<x * GradStride, y>> : x \in 0..(MaxGrad \div GradStride), y \in {0, -40}}

Fragments == {1, 2}

FragIdle ==
  [pc |-> "idle", smoothGrad |-> <<0, 0>>, slope |-> 0, factor |-> 0,
   albedo |-> lowSlopeColor]

\* one fragment through the blend
Blend(f) ==
  /\ \E smoothGrad \in SmoothGrads :
       LET slopeNormal == SlopeNormal(smoothGrad)
           material_blend_factor == BlendFactor(slopeNormal)
       IN frags' = [frags EXCEPT ![f] =
            [pc |-> "done", smoothGrad |-> smoothGrad,
             slope |-> One - slopeNormal[2],
             factor |-> material_blend_factor,
             albedo |-> mix(lowSlopeColor, highSlopeColor, material_blend_factor)]]
  /\ UNCHANGED <<settings, randf, calls, march, hostVars>>

(***************************************************************************)
(* The host side, game().  Every handler runs to completion on the one     *)
(* JavaScript thread, so each is one action.  Angles are in units of       *)
(* 1 / AngleOne radian, lengths on the grid of One; matrices are kept as   *)
(* the terms wgpu-matrix built them from.                                  *)
(***************************************************************************)
AngleOne == 10000

\* Math.PI
Pi == 31416

\* const orbitSensitivity = 0.005, per pixel
orbitSensitivity == 50

\* const zoomSensitivity = 0.005, in thousandths
zoomSensitivity == 5

\* const maxPitch = Math.PI / 2 - 0.01
maxPitch == Pi \div 2 - AngleOne \div 100

\* mat4.identity, mat4.perspective, mat4.lookAt and mat4.mul of wgpu-matrix
mat4Identity == [identity |-> TRUE]

perspective(aspect) == [aspect |-> aspect]

lookAt(eye) == [eye |-> eye]

mat4Mul(a, b) == [left |-> a, right |-> b]

\* mutant: the pitch is limited from above only
LimitPitchAbove(orbitPitch) ==
  IF orbitPitch > maxPitch THEN maxPitch ELSE orbitPitch

\* if (orbitPitch > maxPitch) orbitPitch = maxPitch;
\* if (orbitPitch < -maxPitch) orbitPitch = -maxPitch;
LimitPitch(orbitPitch) ==
  LET p == IF orbitPitch > maxPitch THEN maxPitch ELSE orbitPitch
  IN IF p < -maxPitch THEN -maxPitch ELSE p

\* the camera position of updateCameraOrbit, in spherical coordinates:
\* orbitRadius ** 2 at the angles (orbitYaw, orbitPitch)
CameraPos(c) ==
  [distance |-> FMul(c.orbitRadius, c.orbitRadius), yaw |-> c.orbitYaw,
   pitch |-> c.orbitPitch]

\* updateCameraOrbit(dx, dy): the camera's own variables
OrbitCam(c, dx, dy) ==
  [c EXCEPT !.orbitYaw = c.orbitYaw + (-dx) * orbitSensitivity,
            !.orbitPitch = LimitPitch(c.orbitPitch + dy * orbitSensitivity)]

\* updateCameraOrbit(dx, dy): view, and the uniform written from proj and view
OrbitGpu(g, c) ==
  LET view == lookAt(CameraPos(c))
  IN [g EXCEPT !.view = view, !.viewProj = mat4Mul(g.proj, view)]

\* the pointer positions and wheel deltas of the events, in pixels
XStep == 40

YStep == 400

\* the pointer is at the canvas corner or one step along the diagonal
Points == {<<0, 0>>, <<XStep, YStep>>}

WheelDeltas == {-5000, 4520}

Buttons == {0, 2}

\* caps of the model on what the code leaves unbounded
MaxRadius == 2500

MaxTurn == 1

MaxFingers == 2

\* let isDragging = false; let prevX = 0; ... let orbitPitch = 0.01; fingers is
\* the number of touches on the screen, the length of a touch event's touches
CamInit ==
  [isDragging |-> FALSE, prevX |-> 0, prevY |-> 0, orbitRadius |-> 2360,
   orbitYaw |-> -127800, orbitPitch |-> 100, fingers |-> 0]

\* the handlers are registered by game() and never removed
Registered == loop.pc = "running"

\* whether the yaw can turn by dx more within the model's cap
WithinTurn(c, dx) ==
  LET yaw == c.orbitYaw + (-dx) * orbitSensitivity
      far == MaxTurn * XStep * orbitSensitivity
  IN yaw - CamInit.orbitYaw <= far /\ CamInit.orbitYaw - yaw <= far

\* mutant: a touchmove orbits with any number of touches
OrbitsAnyTouch(c, type, touches) == c.isDragging

\* if (isDragging) of mousemove; if (isDragging && event.touches.length === 1)
\* of touchmove
Orbits(c, type, touches) ==
  IF type = "touchmove" THEN c.isDragging /\ touches = 1 ELSE c.isDragging

Wheel ==
  /\ Registered
  /\ \E deltaY \in WheelDeltas :
       LET radius == cam.orbitRadius + (deltaY * zoomSensitivity * One) \div 1000
           c == [cam EXCEPT !.orbitRadius = IF radius > One THEN radius ELSE One]
       IN /\ radius <= MaxRadius
          /\ cam' = OrbitCam(c, 0, 0)
          /\ gpu' = OrbitGpu(gpu, cam')
  /\ UNCHANGED <<shaderVars, loop>>

\* mousedown with event.button and (event.clientX, event.clientY)
MouseDownAt(button, client) ==
  /\ Registered
  /\ cam' = [cam EXCEPT !.isDragging = IF button = 0 THEN TRUE ELSE @,
                        !.prevX = client[1], !.prevY = client[2]]
  /\ UNCHANGED <<shaderVars, gpu, loop>>

MouseDown == \E button \in Buttons, client \in Points : MouseDownAt(button, client)

MouseUp ==
  /\ Registered
  /\ cam' = [cam EXCEPT !.isDragging = FALSE]
  /\ UNCHANGED <<shaderVars, gpu, loop>>

\* the body shared by mousemove and touchmove
Move(type, touches, clientX, clientY) ==
  LET dx == clientX - cam.prevX
      dy == clientY - cam.prevY
      c == [cam EXCEPT !.prevX = clientX, !.prevY = clientY]
  IN IF Orbits(cam, type, touches)
       THEN /\ WithinTurn(cam, dx)
            /\ cam' = OrbitCam(c, dx, dy)
            /\ gpu' = OrbitGpu(gpu, cam')
       ELSE /\ cam' = c
            /\ gpu' = gpu

MouseMoveAt(client) ==
  /\ Registered
  /\ Move("mousemove", 0, client[1], client[2])
  /\ UNCHANGED <<shaderVars, loop>>

MouseMove == \E client \in Points : MouseMoveAt(client)

TouchStart ==
  /\ Registered
  /\ cam.fingers < MaxFingers
  /\ \E client \in Points :
       LET touches == cam.fingers + 1
       IN cam' = [cam EXCEPT !.isDragging = IF touches = 1 THEN TRUE ELSE @,
                             !.prevX = client[1], !.prevY = client[2],
                             !.fingers = touches]
  /\ UNCHANGED <<shaderVars, gpu, loop>>

\* touchmove with event.touches of length fingers, the first of them at client
TouchMoveAt(client) ==
  /\ Registered
  /\ cam.fingers > 0
  /\ Move("touchmove", cam.fingers, client[1], client[2])
  /\ UNCHANGED <<shaderVars, loop>>

TouchMove == \E client \in Points : TouchMoveAt(client)

TouchEnd ==
  /\ Registered
  /\ cam.fingers > 0
  /\ LET touches == cam.fingers - 1
     IN cam' = [cam EXCEPT !.isDragging = IF touches = 0 THEN FALSE ELSE @,
                           !.fingers = touches]
  /\ UNCHANGED <<shaderVars, gpu, loop>>

(***************************************************************************)
(* The uniform and the render targets.  A texture is its id and size; a    *)
(* view is the id of the texture it was created from; destroyed holds the  *)
(* ids texture.destroy() was called on.                                    *)
(***************************************************************************)
NoTexture == [id |-> 0, size |-> <<0, 0>>]

\* the state before game() has run: a canvas of the default size
GpuNone ==
  [canvas |-> <<300, 150>>, proj |-> mat4Identity, view |-> mat4Identity,
   viewProj |-> [unwritten |-> TRUE],
   depthTexture |-> NoTexture, depthTextureView |-> 0,
   msaaTexture |-> NoTexture, msaaTextureView |-> 0,
   created |-> 0, destroyed |-> {}]

\* mutant: the views are created for the first textures only
createDepthAndMsaaTexturesStaleView(g) ==
  LET depth == [id |-> g.created + 1, size |-> g.canvas]
      msaa == [id |-> g.created + 2, size |-> g.canvas]
  IN [g EXCEPT
        !.destroyed = (g.destroyed \cup {g.depthTexture.id, g.msaaTexture.id}) \ {0},
        !.depthTexture = depth,
        !.depthTextureView = IF g.depthTextureView = 0 THEN depth.id ELSE @,
        !.msaaTexture = msaa,
        !.msaaTextureView = IF g.msaaTextureView = 0 THEN msaa.id ELSE @,
        !.created = g.created + 2]

\* createDepthAndMsaaTextures(): destroy the old pair if there is one, create
\* the new pair at the canvas size, take their views
createDepthAndMsaaTextures(g) ==
  LET depth == [id |-> g.created + 1, size |-> g.canvas]
      msaa == [id |-> g.created + 2, size |-> g.canvas]
  IN [g EXCEPT
        !.destroyed = (g.destroyed \cup {g.depthTexture.id, g.msaaTexture.id}) \ {0},
        !.depthTexture = depth,
        !.depthTextureView = depth.id,
        !.msaaTexture = msaa,
        !.msaaTextureView = msaa.id,
        !.created = g.created + 2]

\* uploadUniforms()
uploadUniforms(g) == [g EXCEPT !.viewProj = mat4Mul(g.proj, g.view)]

\* canvas.width / canvas.height
Aspect(canvas) == FDiv(canvas[1], canvas[2])

\* resizeCanvas(canvas), with the window's inner size and devicePixelRatio
resizeCanvas(g, inner, devicePixelRatio) ==
  LET width == inner[1] * devicePixelRatio
      height == inner[2] * devicePixelRatio
      sized == [g EXCEPT !.canvas = <<width, height>>,
                         !.proj = perspective(Aspect(<<width, height>>))]
  IN createDepthAndMsaaTextures(uploadUniforms(sized))

\* the window's inner sizes and pixel ratios
InnerSizes == {<<800, 600>>, <<600, 800>>}

Ratios == {1, 2}

\* caps of the model: textures created, frames drawn
MaxTextures == 8

MaxFrames == 2

(***************************************************************************)
(* The life of game(canvas, signal) under App.svelte's effect: awaiting    *)
(* tgpu.init(), then the rest of game() in one go, then frames, resizes,   *)
(* input events, and the effect's cleanup.  pending holds the ids of       *)
(* the animation-frame callbacks requested and neither run nor cancelled;  *)
(* animationFrame is 0 while the variable is unassigned.                   *)
(***************************************************************************)
LoopInit ==
  [pc |-> "awaitInit", aborted |-> FALSE, listenerRan |-> FALSE, root |-> "none",
   observing |-> FALSE, pending |-> {}, nextId |-> 1, animationFrame |-> 0,
   frames |-> 0, draw |-> [color |-> 0, depth |-> 0, root |-> "none"],
   noWebGPUSupport |-> FALSE]

\* tgpu.init() resolves: game() runs from line 14 to its end
InitResolve ==
  /\ loop.pc = "awaitInit"
  /\ \E inner \in InnerSizes, devicePixelRatio \in Ratios :
       /\ cam' = OrbitCam(CamInit, 0, 0)
       /\ gpu' = OrbitGpu(resizeCanvas(createDepthAndMsaaTextures(GpuNone),
                                       inner, devicePixelRatio), cam')
  /\ loop' = [loop EXCEPT !.pc = "running", !.root = "live", !.observing = TRUE,
                          !.pending = {loop.nextId}, !.nextId = loop.nextId + 1]
  /\ UNCHANGED shaderVars

\* tgpu.init() rejects: the effect's catch
InitReject ==
  /\ loop.pc = "awaitInit"
  /\ loop' = [loop EXCEPT !.pc = "failed", !.noWebGPUSupport = TRUE]
  /\ UNCHANGED <<shaderVars, cam, gpu>>

\* the abort listener: cancelAnimationFrame(animationFrame);
\* resizeObserver.disconnect(); root.destroy()
AbortListener(lp) ==
  [lp EXCEPT !.pending = lp.pending \ {lp.animationFrame},
             !.observing = FALSE, !.root = "destroyed", !.listenerRan = TRUE]

\* the effect's cleanup, abortCtrl.abort(): the abort event is dispatched to
\* the listeners registered at that moment, once
Cleanup ==
  /\ ~loop.aborted
  /\ loop' = IF loop.pc = "running"
               THEN AbortListener([loop EXCEPT !.aborted = TRUE])
               ELSE [loop EXCEPT !.aborted = TRUE]
  /\ UNCHANGED <<shaderVars, cam, gpu>>

\* an animation-frame callback: run()
Frame ==
  /\ loop.frames < MaxFrames
  /\ \E id \in loop.pending :
       loop' = [loop EXCEPT
                  !.draw = [color |-> gpu.msaaTextureView,
                            depth |-> gpu.depthTextureView, root |-> loop.root],
                  !.frames = loop.frames + 1,
                  !.animationFrame = loop.nextId,
                  !.pending = (loop.pending \ {id}) \cup {loop.nextId},
                  !.nextId = loop.nextId + 1]
  /\ UNCHANGED <<shaderVars, cam, gpu>>

\* the ResizeObserver's callback
Resize ==
  /\ loop.observing
  /\ gpu.created + 2 <= MaxTextures
  /\ \E inner \in InnerSizes, devicePixelRatio \in Ratios :
       gpu' = resizeCanvas(gpu, inner, devicePixelRatio)
  /\ UNCHANGED <<shaderVars, cam, loop>>

HostIdle == cam = CamInit /\ gpu = GpuNone /\ loop = LoopInit

\* the settings of the latest terrain.ts, which the march's fbm reads
DefaultSettings ==
  [lacunarity |-> 200, baseAmplitude |-> 40, noiseRotation |-> 30,
   octaves |-> 0, smoothOctaves |-> 0, amplitudeDecay |-> 45,
   offset |-> <<1221, 920>>]

Off == [pc |-> "off"]

InitMarch ==
  /\ settings = DefaultSettings
  /\ randf = 0
  /\ calls = [t \in Invocations |-> Off]
  /\ march = MarchIdle
  /\ frags = [f \in Fragments |-> FragIdle]
  /\ HostIdle

NextMarch ==
  \/ MarchCall
  \/ MarchIterate
  \/ MarchLoopExit
  \/ MarchReturn
  \/ FragmentShadow

SpecMarch == InitMarch /\ [][NextMarch]_vars

\* one invocation, call after call
InitFbm ==
  /\ settings \in SettingsChoices
  /\ randf = 0
  /\ calls = [t \in Invocations |-> IF t = 1 THEN Idle ELSE Off]
  /\ march = MarchIdle
  /\ frags = [f \in Fragments |-> FragIdle]
  /\ HostIdle

\* two invocations interleaved, under one setting
InitPar ==
  /\ settings \in {st \in SettingsChoices :
                     /\ st.octaves = MaxOctaves
                     /\ st.smoothOctaves = 1
                     /\ st.noiseRotation = 30}
  /\ randf = 0
  /\ calls = [t \in Invocations |-> Idle]
  /\ march = MarchIdle
  /\ frags = [f \in Fragments |-> FragIdle]
  /\ HostIdle

NextFbm == \E t \in Invocations : Call(t) \/ Octave(t) \/ Return(t)

SpecFbm == InitFbm /\ [][NextFbm]_vars

SpecPar == InitPar /\ [][NextFbm]_vars

\* the march's own steps are taken once started: a shader invocation runs on
SpecMarchLive ==
  /\ SpecMarch
  /\ WF_vars(MarchIterate) /\ WF_vars(MarchLoopExit) /\ WF_vars(MarchReturn)

\* the fragments of a frame through the material blend
InitBlend ==
  /\ settings = DefaultSettings
  /\ randf = 0
  /\ calls = [t \in Invocations |-> Off]
  /\ march = MarchIdle
  /\ frags = [f \in Fragments |-> FragIdle]
  /\ HostIdle

NextBlend == \E f \in Fragments : Blend(f)

SpecBlend == InitBlend /\ [][NextBlend]_vars

\* the host: App.svelte's effect has run and game() awaits tgpu.init()
InitGame ==
  /\ settings = DefaultSettings
  /\ randf = 0
  /\ calls = [t \in Invocations |-> Off]
  /\ march = MarchIdle
  /\ frags = [f \in Fragments |-> FragIdle]
  /\ HostIdle

NextGame ==
  \/ InitResolve
  \/ InitReject
  \/ Cleanup
  \/ Frame
  \/ Resize
  \/ Wheel
  \/ MouseDown
  \/ MouseUp
  \/ MouseMove
  \/ TouchStart
  \/ TouchMove
  \/ TouchEnd

SpecGame == InitGame /\ [][NextGame]_vars

\* the promise of tgpu.init() settles, and the browser runs a requested
\* animation-frame callback that has not been cancelled
SpecGameLive ==
  /\ SpecGame
  /\ WF_vars(InitResolve \/ InitReject)
  /\ WF_vars(Frame)

(***************************************************************************)
(* Properties of rayMarchShadow.                                           *)
(***************************************************************************)
Returned == march.pc \in {"returned", "done"}

\* the k-th query found its point below the terrain
UnderAt(k) == Under(march.queries[k].pos, march.queries[k].height)

Occluded == \E k \in 1..Len(march.queries) : UnderAt(k)

\* the ray parameter the loop stops at when no query is occluded
FinalT == march.start + step * Len(march.queries)

\* the budget ran out before t reached end
Exhausted == ~Occluded /\ Len(march.queries) = maxIterations /\ FinalT < march.end

LastStrictlyAbove ==
  LET q == march.queries[Len(march.queries)] IN q.pos[2] + threshold > q.height

\* C1 as stated: the value returned lies in [start, end + 1].
C1_Range ==
  Returned => march.start <= march.ret /\ march.ret <= march.end + One

\* C1, amended: the value returned is at least start; it is below end + 10 (one
\* step past end) when the march was entered (start < end), and is start itself
\* when it was not (start >= end).
C1_RangeAmended ==
  Returned =>
    /\ march.start <= march.ret
    /\ IF march.start < march.end
         THEN march.ret < march.end + step
         ELSE march.ret = march.start

\* a march that was entered, met no end exactly and returned a t beyond end + 1
C1_Witness ==
  /\ Returned
  /\ march.start < march.end
  /\ march.ret > march.end + One
  /\ Len(march.queries) > 0

\* C2 as stated: the value returned is end + 1 exactly when no sampled point
\* lies below the terrain.
C2_Sentinel ==
  Returned => (march.ret = march.end + One <=> ~Occluded)

\* C2, amended: the value returned is end + 1 exactly when no sampled point lies
\* below the terrain and either the 20-step budget ran out with t < end and the
\* last sample strictly above the terrain less the threshold, or the t the loop
\* stopped at, start + 10 * (number of samples), is itself end + 1.  When t
\* reaches end otherwise, that t is returned.
C2_SentinelAmended ==
  Returned =>
    /\ march.ret = march.end + One <=>
         /\ ~Occluded
         /\ \/ Exhausted /\ LastStrictlyAbove
            \/ FinalT = march.end + One
    /\ ~Occluded /\ FinalT >= march.end => march.ret = FinalT

\* a march that sampled, found no occlusion, reached end and returned a value other than end + 1
C2_Witness ==
  /\ Returned
  /\ ~Occluded
  /\ Len(march.queries) > 0
  /\ FinalT >= march.end
  /\ march.ret # march.end + One

\* C3 as stated: the value returned is below end exactly when a sampled point
\* was occluded, and the fragment is darkened exactly then.
C3_OccludedIffBelowEnd ==
  /\ Returned => (march.ret < march.end <=> Occluded)
  /\ march.pc = "done" => (march.light < One <=> Occluded)

\* C4: a sampled point below the terrain is the last query made, the march has
\* left the loop, and the value returned is that sample's t = start + 10 * j.
C4_StopsAtFirstOccluded ==
  \A k \in 1..Len(march.queries) :
    UnderAt(k) =>
      /\ k = Len(march.queries)
      /\ march.pc # "loop"
      /\ march.queries[k].t = march.start + step * (k - 1)
      /\ Returned => march.ret = march.queries[k].t

\* a march occluded at a sample after the first, returning that sample's t
C4_Witness ==
  /\ Returned
  /\ Len(march.queries) > 1
  /\ UnderAt(Len(march.queries))
  /\ march.ret = march.start + step * (Len(march.queries) - 1)

Done(t) == calls[t].pc = "done"

\* the parts of a returned value
HeightOf(fn, ret) ==
  CASE fn = "fbm" -> ret
    [] fn \in {"fbmLegacy", "fbmWithGradient"} -> ret[1]
    [] OTHER -> ret.height

GradOf(fn, ret) ==
  IF fn \in {"fbmLegacy", "fbmWithGradient"} THEN <<ret[2], ret[3]>> ELSE ret.grad

\* C6: the smoothGrad of fbmWithDoubleGradient(pos, k, n), n > k, is the
\* gradient of fbmWithGradient(pos, k + 1).
C6_Truncation ==
  \A t \in Invocations :
    /\ Done(t)
    /\ calls[t].fn = "fbmWithDoubleGradient"
    /\ calls[t].octaves > calls[t].threshold
    => calls[t].ret.smoothGrad =
         GradOf("fbmWithGradient",
                fbmWithGradient(calls[t].pos, calls[t].threshold + 1))

\* a call with 0 < k and k + 1 < n whose smooth gradient is neither zero nor the full gradient
C6_Witness ==
  \E t \in Invocations :
    /\ Done(t)
    /\ calls[t].fn = "fbmWithDoubleGradient"
    /\ calls[t].octaves > calls[t].threshold + 1
    /\ calls[t].threshold > 0
    /\ calls[t].ret.smoothGrad # <<0, 0>>
    /\ calls[t].ret.smoothGrad # calls[t].ret.grad

C8_ZeroOctaves ==
  \A t \in Invocations :
    Done(t) /\ calls[t].l.octaves = 0 =>
      /\ HeightOf(calls[t].fn, calls[t].ret) = 0
      /\ HasGradient(calls[t].fn) => GradOf(calls[t].fn, calls[t].ret) = <<0, 0>>
      /\ HasSmoothGradient(calls[t].fn) => calls[t].ret.smoothGrad = <<0, 0>>
      /\ calls[t].l.samples = 0

\* a call with 0 octaves away from the origin, under the second set of settings
C8_Witness ==
  \E t \in Invocations :
    /\ Done(t)
    /\ calls[t].fn = "fbmWithDoubleGradient"
    /\ calls[t].octaves = 0
    /\ calls[t].threshold = 0
    /\ calls[t].pos # <<0, 0>>
    /\ settings.noiseRotation = 90

C10_Deterministic ==
  /\ settings \in SettingsChoices
  /\ \A t, u \in Invocations :
       /\ Done(t)
       /\ Done(u)
       /\ calls[t].fn = calls[u].fn
       /\ calls[t].pos = calls[u].pos
       /\ calls[t].octaves = calls[u].octaves
       /\ calls[t].threshold = calls[u].threshold
       => calls[t].ret = calls[u].ret

\* both invocations have returned from the legacy fbm at the same position, the generator seeded
C10_Witness ==
  /\ randf = 123
  /\ Done(1)
  /\ Done(2)
  /\ calls[1].fn = "fbmLegacy"
  /\ calls[2].fn = "fbmLegacy"
  /\ calls[1].pos = calls[2].pos
  /\ calls[1].ret[1] # 0
  /\ calls[1].ret[2] # 0

(***************************************************************************)
(* Properties of the material blend.                                       *)
(***************************************************************************)
Shaded(f) == frags[f].pc = "done"

Least(a, b) == IF a < b THEN a ELSE b

Most(a, b) == IF a < b THEN b ELSE a

\* C11: the albedo is lowSlopeColor when 1 - slopeNormal.y <= slopeRange.x and
\* highSlopeColor when it is >= slopeRange.y; it always is
\* lowSlopeColor * (1 - t) + highSlopeColor * t for the blend factor t, with
\* 0 <= t <= 1, so each component lies between the two colours' (up to the
\* rounding of the two products); and of two fragments the one with the larger
\* 1 - slopeNormal.y has the larger or equal t.
C11_MaterialBlend ==
  /\ \A f \in Fragments :
       Shaded(f) =>
         /\ frags[f].slope <= slopeRange[1] => frags[f].albedo = lowSlopeColor
         /\ frags[f].slope >= slopeRange[2] => frags[f].albedo = highSlopeColor
         /\ 0 <= frags[f].factor /\ frags[f].factor <= One
         /\ \A c \in 1..3 :
              /\ frags[f].albedo[c]
                   = FMul(lowSlopeColor[c], One - frags[f].factor)
                       + FMul(highSlopeColor[c], frags[f].factor)
              /\ Least(lowSlopeColor[c], highSlopeColor[c]) - 1 <= frags[f].albedo[c]
              /\ frags[f].albedo[c] <= Most(lowSlopeColor[c], highSlopeColor[c])
  /\ \A f, g \in Fragments :
       Shaded(f) /\ Shaded(g) /\ frags[f].slope <= frags[g].slope
         => frags[f].factor <= frags[g].factor

\* one fragment strictly inside the range with a factor strictly inside (0, 1)
\* and a colour of its own, the other exactly at the upper end of the range
C11_Witness ==
  /\ Shaded(1)
  /\ Shaded(2)
  /\ slopeRange[1] < frags[1].slope /\ frags[1].slope < slopeRange[2]
  /\ 0 < frags[1].factor /\ frags[1].factor < One
  /\ frags[1].albedo # lowSlopeColor /\ frags[1].albedo # highSlopeColor
  /\ frags[2].slope = slopeRange[2]
  /\ frags[2].albedo = highSlopeColor

(***************************************************************************)
(* Properties of the accumulators' loop.                                   *)
(***************************************************************************)
\* baseAmplitude * amplitudeDecay^i, one f32 product per octave
RECURSIVE AmplitudeAt(_)
AmplitudeAt(i) ==
  IF i = 0
    THEN settings.baseAmplitude
    ELSE FMul(AmplitudeAt(i - 1), settings.amplitudeDecay)

\* invocation t takes octave i of its loop in this step
TakesOctave(t) ==
  /\ calls[t].pc = "loop"
  /\ calls'[t].pc = "loop"
  /\ calls'[t].l.i = calls[t].l.i + 1

\* C12 as stated: in every accumulator, legacy included, octave i adds the noise
\* value times baseAmplitude * amplitudeDecay^i to the height and the
\* (transformed) noise gradient times that same amplitude, once, to the gradient.
C12_AmplitudeOnce ==
  [][\A t \in Invocations :
       TakesOctave(t) =>
         LET l == calls[t].l
             a == AmplitudeAt(l.i)
             sample == sampleWithGradient(l.tPos)
         IN /\ l.amplitude = a
            /\ calls'[t].l.amplitude = FMul(a, settings.amplitudeDecay)
            /\ calls'[t].l.height = l.height + FMul(a, sample[1])
            /\ HasGradient(l.fn) =>
                 calls'[t].l.grad
                   = VAdd(l.grad, MMulV(l.m, SMulV(a, <<sample[2], sample[3]>>)))]_vars

\* C13 as stated: with smoothOctaves = s < octaves, the smoothGrad returned by
\* the fbm of src/lib/terrain.ts is the gradient accumulated over the first s
\* octaves.
C13_SmoothLayers ==
  \A t \in Invocations :
    /\ Done(t)
    /\ calls[t].fn = "fbmSlot"
    /\ settings.smoothOctaves < settings.octaves
    => calls[t].ret.smoothGrad =
         GradOf("fbmWithGradient",
                fbmWithGradient(calls[t].pos, settings.smoothOctaves))

Transpose(M) == <<<<M[1][1], M[2][1]>>, <<M[1][2], M[2][2]>>>>

\* (lacunarity * R)^i, the cumulative transform of the sampling domain
RECURSIVE DomainTransform(_)
DomainTransform(i) ==
  IF i = 0
    THEN Identity
    ELSE SMulM(settings.lacunarity,
               MMulM(RotationMatrix(settings.noiseRotation), DomainTransform(i - 1)))

\* (lacunarity * R^-1)^i
RECURSIVE GradientTransform(_)
GradientTransform(i) ==
  IF i = 0
    THEN Identity
    ELSE SMulM(settings.lacunarity,
               MMulM(InverseRotationMatrix(settings.noiseRotation),
                     GradientTransform(i - 1)))

\* lacunarity * R applied i times to p
RECURSIVE PosAt(_, _)
PosAt(i, p) ==
  IF i = 0
    THEN p
    ELSE SMulV(settings.lacunarity,
               MMulV(RotationMatrix(settings.noiseRotation), PosAt(i - 1, p)))

\* invocation t is in the loop of one of terrain.ts's accumulators
InLoop(t) == calls[t].pc = "loop" /\ calls[t].fn # "fbmLegacy"

\* every entry of M is within one grid unit of the identity's
NearIdentity(M) ==
  \A c, r \in 1..2 : Abs(M[c][r] - Identity[c][r]) <= 1

\* C14: at the start of octave i the sampling position is (lacunarity * R)^i
\* applied to position + offset and m is (lacunarity * R^-1)^i, which is the
\* transpose of the cumulative domain transform (lacunarity * R)^i; R^-1 (m2i)
\* is the transpose of R (m2) and their product is the identity (to the
\* rounding of the products); and the octave adds m times the scaled noise
\* gradient, the transposed domain transform applied to the gradient at the
\* transformed position, to grad.
C14_LoopInvariant ==
  /\ [](/\ InverseRotationMatrix(settings.noiseRotation)
             = Transpose(RotationMatrix(settings.noiseRotation))
        /\ NearIdentity(MMulM(RotationMatrix(settings.noiseRotation),
                              InverseRotationMatrix(settings.noiseRotation)))
        /\ \A t \in Invocations :
             InLoop(t) =>
               /\ calls[t].l.tPos
                    = PosAt(calls[t].l.i, VAdd(calls[t].pos, settings.offset))
               /\ HasGradient(calls[t].fn) =>
                    /\ calls[t].l.m = GradientTransform(calls[t].l.i)
                    /\ calls[t].l.m = Transpose(DomainTransform(calls[t].l.i)))
  /\ [][\A t \in Invocations :
          TakesOctave(t) /\ InLoop(t) /\ HasGradient(calls[t].fn) =>
            LET l == calls[t].l
                sample == sampleWithGradient(
                            PosAt(l.i, VAdd(calls[t].pos, settings.offset)))
            IN calls'[t].l.grad
                 = VAdd(l.grad,
                        MMulV(Transpose(DomainTransform(l.i)),
                              SMulV(l.amplitude, <<sample[2], sample[3]>>)))]_vars

\* the slot-driven fbm entering its third octave under the 30 degree rotation,
\* away from the origin: m is no longer symmetric, the position has moved
C14_Witness ==
  /\ calls[1].pc = "loop"
  /\ calls[1].fn = "fbmSlot"
  /\ calls[1].l.i = 2
  /\ calls[1].pos # <<0, 0>>
  /\ settings.noiseRotation = 30
  /\ settings.offset # <<0, 0>>
  /\ calls[1].l.m # Transpose(calls[1].l.m)
  /\ calls[1].l.grad # <<0, 0>>

(***************************************************************************)
(* Properties of the camera and its input handlers.                        *)
(***************************************************************************)
\* C15: in every reachable state -(pi/2 - 0.01) <= orbitPitch <= pi/2 - 0.01.
C15_PitchLimit ==
  -maxPitch <= cam.orbitPitch /\ cam.orbitPitch <= maxPitch

\* the camera stopped at the lower limit in the course of a drag, after it had
\* been moved horizontally too
C15_Witness ==
  /\ cam.orbitPitch = -maxPitch
  /\ cam.isDragging
  /\ cam.orbitYaw # CamInit.orbitYaw

OrbitMoved ==
  cam'.orbitYaw # cam.orbitYaw \/ cam'.orbitPitch # cam.orbitPitch

OrbitKept ==
  /\ cam'.orbitYaw = cam.orbitYaw
  /\ cam'.orbitPitch = cam.orbitPitch
  /\ cam'.orbitRadius = cam.orbitRadius

\* C16: yaw and pitch change only in a mousemove with isDragging or a touchmove
\* with isDragging and exactly one touch; isDragging becomes true only in a
\* mousedown with button 0 or a touchstart with exactly one touch, and is false
\* after a mouseup and after a touchend that leaves no touch; a mousemove or
\* touchmove that does not orbit sets prevX and prevY to the event's position
\* and keeps yaw, pitch and radius.
C16_DragOnly ==
  [][/\ OrbitMoved =>
          /\ cam.isDragging
          /\ MouseMove \/ (TouchMove /\ cam.fingers = 1)
     /\ ~cam.isDragging /\ cam'.isDragging =>
          \/ \E client \in Points : MouseDownAt(0, client)
          \/ TouchStart /\ cam'.fingers = 1
     /\ MouseUp => ~cam'.isDragging
     /\ TouchEnd /\ cam'.fingers = 0 => ~cam'.isDragging
     /\ \A client \in Points :
          \/ MouseMoveAt(client) /\ ~cam.isDragging
          \/ TouchMoveAt(client) /\ ~(cam.isDragging /\ cam.fingers = 1)
          => /\ cam'.prevX = client[1]
             /\ cam'.prevY = client[2]
             /\ OrbitKept]_vars

\* a second finger is down while a drag is on, the camera having been orbited
\* and the pointer position last recorded away from the corner
C16_Witness ==
  /\ cam.fingers = 2
  /\ cam.isDragging
  /\ cam.orbitPitch # CamInit.orbitPitch
  /\ cam.orbitYaw # CamInit.orbitYaw
  /\ cam.prevX # 0

(***************************************************************************)
(* Properties of the animation loop and its teardown.                      *)
(***************************************************************************)
\* C17 as stated: once the abort listener has run, run() is not executed again
\* and no draw is issued, whenever after setup the abort comes.
C17_NoFrameAfterAbort ==
  [][loop.listenerRan =>
       /\ loop'.frames = loop.frames
       /\ loop'.draw = loop.draw]_vars

\* nothing of the game is left running: tgpu.init() failed, or no frame
\* callback is pending, the resize observer is disconnected and the root is
\* destroyed
TornDown ==
  \/ loop.pc = "failed"
  \/ /\ loop.pc = "running"
     /\ loop.pending = {}
     /\ ~loop.observing
     /\ loop.root = "destroyed"

\* C18 as stated: once the effect's cleanup has called abortCtrl.abort(),
\* whenever after the start of game() that is, eventually the render loop is
\* stopped, the resize observer disconnected and the root destroyed.
C18_AbortTearsDown == loop.aborted ~> TornDown

\* a frame is drawn in this step
Draws == loop'.frames = loop.frames + 1

====
